---- MODULE Spec2Model ----
(***************************************************************************)
(* A model of tuiper (src/main.rs): the coordinate conversion functions,   *)
(* the propagation adapter, the windowed ground-track sampling and the     *)
(* terminal refresh loop of main.                                          *)
(*                                                                         *)
(* Units.  An Epoch is a whole number of ET seconds counted from J2000.0   *)
(* (JDE 2451545.0); a Duration is a whole number of seconds.  An angle in  *)
(* radians is a whole number of units of pi/180 rad, so that PI = 180.  An *)
(* angle in degrees is a fixed-point number with DegScale units per degree *)
(* (one unit is the rotation of the Earth in one sidereal second), which   *)
(* keeps every comparison made by spherical_to_lat_lon exact.              *)
(***************************************************************************)
EXTENDS Integers, Sequences, FiniteSets, TLC

VARIABLES
    pc,            \* position of main
    exit,          \* "running", "ok" (Ok(())), "err" (Err by ?), "panic"
    panicSite,     \* which unwrap/expect panicked
    altScreen,     \* the terminal is in the alternate screen
    rawMode,       \* the terminal is in raw mode
    entered,       \* the alternate screen was entered and raw mode enabled
    elements_vec,  \* Vec<sgp4::Elements> parsed from the response
    kuiper_sats,   \* Vec<&Elements>: indices into elements_vec
    current_time,  \* Epoch::now() of the cycle
    predictions,   \* the cycle's TimeSeries
    iter,          \* predictions.clone() being consumed for the current satellite
    satIdx,        \* position of the outer map in kuiper_sats
    track,         \* inner collect(): the Vec<GroundPos> under construction
    acc,           \* outer collect(): the Vec<(sat, Vec<GroundPos>)> under construction
    sat_pos,       \* the cycle's finished snapshot
    drawn,         \* what the last successful terminal.draw of the loop rendered
    cycles,        \* number of cycles started
    pending,       \* terminal event waiting to be read
    lastEvent,     \* event returned by the last event::read
    failed,        \* <<satellite position, instant>> where get_prediction returned None
    geo,           \* harness of spherical_to_lat_lon
    smp            \* harness of the TimeSeries sampler

vars == <<pc, exit, panicSite, altScreen, rawMode, entered, elements_vec, kuiper_sats,
          current_time, predictions, iter, satIdx, track, acc, sat_pos, drawn,
          cycles, pending, lastEvent, failed, geo, smp>>

mainVars == <<pc, exit, panicSite, altScreen, rawMode, entered, elements_vec, kuiper_sats,
              current_time, predictions, iter, satIdx, track, acc, sat_pos, drawn,
              cycles, pending, lastEvent, failed>>

----------------------------------------------------------------------------
(* Bounds of the model *)

MaxRoster == 2      \* longest list of element sets the roster request returns
MaxCycles == 2      \* refresh cycles per run
AngleSteps == 4     \* grid points per half turn of the angles fed to the conversion
MaxDur == 6         \* longest generic window of the sampler harness
MaxStep == 3        \* largest generic step of the sampler harness
MaxStart == 1       \* latest generic window start of the sampler harness

(* Program constants *)

PI == 180
SecondsPerDay == 86400
GmstOffset == 43269
Minute == 60

\* Option<T>
None == [tag |-> "None"]
Some(v) == [tag |-> "Some", val |-> v]

----------------------------------------------------------------------------
(* Arithmetic of the language *)

\* f64 % f64 and i64 % i64: the remainder takes the sign of the dividend
Rem(a, b) == IF a >= 0 THEN a % b ELSE -((-a) % b)

Sqrt(n) == CHOOSE r \in 0..n : r * r <= n /\ n < (r + 1) * (r + 1)

Sign(v) == IF v > 0 THEN 1 ELSE IF v < 0 THEN -1 ELSE 0

\* f64::atan2 on the lattice directions (an argument zero, or |y| = |x|)
atan2(y, x) ==
    IF y = 0 THEN (IF x >= 0 THEN 0 ELSE PI)
    ELSE IF x = 0 THEN Sign(y) * (PI \div 2)
    ELSE IF x > 0 THEN Sign(y) * (PI \div 4)
    ELSE Sign(y) * ((3 * PI) \div 4)

DegScale == SecondsPerDay \div 360
Deg(d) == d * DegScale

----------------------------------------------------------------------------
(* Coordinate conversion *)

rect_to_spherical(r) ==
    [rho   |-> Sqrt(r.x * r.x + r.y * r.y + r.z * r.z),
     theta |-> atan2(r.y, r.x),
     phi   |-> atan2(Sqrt(r.x * r.x + r.y * r.y), r.z)]

\* GMST in seconds.  to_jde_et_days - 2451545.0 is time / 86400, so
\* (to_jde_et_days - s / 86400 - 2451545.0) * 86400 is time - s; the rate
\* 8640184.812866 / (36525 * 86400) is 0.002738 sidereal seconds per second,
\* and the terms in t^2 and 5.9e-11 * t are below one second here.
calc_gmst(time) ==
    LET now == time
        s   == Rem(now, SecondsPerDay) - GmstOffset
        h0  == 24110 + ((now - s) * 2738) \div 1000000
        h1s == s + (s * 2738) \div 1000000
        rot == Rem(h0 + h1s, SecondsPerDay)
    IN  rot

spherical_to_lat_lon(s, time) ==
    LET lat == ((s.phi * Deg(180)) \div PI - Deg(90)) * (-1)
        \* calc_gmst / 86400.0 * 360.0, in DegScale units per degree
        sidereal_time == (calc_gmst(time) * DegScale) \div (SecondsPerDay \div 360)
        lon0 == Rem((s.theta * Deg(180)) \div PI - sidereal_time, Deg(360))
        lon1 == IF lon0 < Deg(-180) THEN lon0 + Deg(360) ELSE lon0
        lon2 == IF lon1 > Deg(180) THEN lon1 - Deg(360) ELSE lon1
    IN  [lat |-> lat, lon |-> lon2]

----------------------------------------------------------------------------
(* Strings are sequences of characters *)

KUIPER == <<"K", "U", "I", "P", "E", "R">>
KUIPER_DASH == <<"K", "U", "I", "P", "E", "R", "-">>

str_contains(name, prefix) ==
    \E k \in 0..(Len(name) - Len(prefix)) :
        SubSeq(name, k + 1, k + Len(prefix)) = prefix

\* str::starts_with
starts_with(name, prefix) ==
    /\ Len(name) >= Len(prefix)
    /\ SubSeq(name, 1, Len(prefix)) = prefix

\* str::strip_prefix: Some(rest) or None
strip_prefix(name, prefix) ==
    IF Len(name) >= Len(prefix) /\ SubSeq(name, 1, Len(prefix)) = prefix
    THEN Some(SubSeq(name, Len(prefix) + 1, Len(name)))
    ELSE None

----------------------------------------------------------------------------
(* Element sets the roster request can return.  object_name is optional;   *)
(* datetime is the reference epoch, None when Epoch::from_str rejects it;  *)
(* constants_ok tells whether sgp4::Constants::from_elements accepts the   *)
(* elements; fail_at holds the whole minutes since epoch at which          *)
(* propagation returns Err (a decayed or divergent orbit).                 *)

MatchingNames ==
    { Some(KUIPER \o <<"-", "1">>), Some(KUIPER) }

OtherNames ==
    { None, Some(<<"X">> \o KUIPER \o <<"-", "2">>) }

Healths ==
    { [datetime |-> Some(0), constants_ok |-> TRUE, fail_at |-> {}],
      [datetime |-> Some(0), constants_ok |-> TRUE, fail_at |-> {22}],
      [datetime |-> None, constants_ok |-> TRUE, fail_at |-> {}],
      [datetime |-> Some(0), constants_ok |-> FALSE, fail_at |-> {}] }

MkElements(n, h) ==
    [object_name |-> n, datetime |-> h.datetime,
     constants_ok |-> h.constants_ok, fail_at |-> h.fail_at]

ElementsUniverse ==
    { MkElements(n, h) : n \in MatchingNames, h \in Healths }
    \cup { MkElements(n, [datetime |-> Some(0), constants_ok |-> TRUE,
                           fail_at |-> {}]) : n \in OtherNames }

Rosters == UNION { [1..n -> ElementsUniverse] : n \in 0..MaxRoster }

\* sgp4 propagation: a circular equatorial orbit of radius 7 (thousands of
\* km) that advances a quarter turn every 24 minutes
propagate(elements, minutes) ==
    IF minutes \in elements.fail_at
    THEN [tag |-> "Err"]
    ELSE LET q == (minutes \div 24) % 4
         IN  [tag |-> "Ok",
              position |->
                  CASE q = 0 -> <<7, 0, 0>>
                    [] q = 1 -> <<0, 7, 0>>
                    [] q = 2 -> <<-7, 0, 0>>
                    [] OTHER -> <<0, -7, 0>>]

\* Some(prediction), None, or a panic of one of the two unwraps
get_prediction(time, elements) ==
    IF elements.datetime.tag = "None"
    THEN [tag |-> "panic", site |-> "epoch_parse"]
    ELSE LET epoch == elements.datetime.val
             duration == time - epoch
         IN  IF ~elements.constants_ok
             THEN [tag |-> "panic", site |-> "constants"]
             ELSE LET prediction == propagate(elements, duration \div Minute)
                  IN  IF prediction.tag = "Ok"
                      THEN Some(prediction.position)
                      ELSE None

get_sat_lat_lon(time, elements) ==
    LET pred_option == get_prediction(time, elements)
    IN  IF pred_option.tag = "Some"
        THEN LET prediction == pred_option.val
                 rect == [x |-> prediction[1],
                          y |-> prediction[2],
                          z |-> prediction[3]]
                 spher == rect_to_spherical(rect)
                 g == spherical_to_lat_lon(spher, time)
             IN  Some(g)
        ELSE pred_option

----------------------------------------------------------------------------
(* hifitime::TimeSeries *)

TimeSeries_inclusive(start, end, step) ==
    [start |-> start, duration |-> end - start, step |-> step,
     cur |-> 0, incl |-> TRUE]

TimeSeries_exclusive(start, end, step) ==
    [start |-> start, duration |-> end - start, step |-> step,
     cur |-> 0, incl |-> FALSE]

\* Iterator::next: the item (None when exhausted) and the advanced series
TimeSeries_next(ts) ==
    LET next_offset == ts.cur * ts.step
    IN  IF \/ (~ts.incl /\ next_offset >= ts.duration)
           \/ (ts.incl /\ next_offset > ts.duration)
        THEN [item |-> None, series |-> ts]
        ELSE [item |-> Some(ts.start + next_offset),
              series |-> [ts EXCEPT !.cur = ts.cur + 1]]

\* TimeSeries::exclusive(current_time, next_orbit_end, step)
make_predictions(start, end, step) == TimeSeries_exclusive(start, end, step)

\* Unit::Minute * 94.5 and Unit::Minute * 2.5
OrbitWindow == (Minute * 945) \div 10
SampleStep == (Minute * 25) \div 10

\* what Epoch::now() can read: J2000 or one step later
Nows == {0, SampleStep}

----------------------------------------------------------------------------
(* Terminal events *)

NoEvent == [tag |-> "NoEvent"]

Events ==
    { [tag |-> "Key", kind |-> k, code |-> c] :
          k \in {"Press", "Release", "Repeat"}, c \in {"q", "Q"} }
    \cup { [tag |-> "Key", kind |-> "Press", code |-> "x"], [tag |-> "Resize"] }

----------------------------------------------------------------------------
(* main *)

termVars == <<altScreen, rawMode, entered>>
rosterVars == <<elements_vec, kuiper_sats>>
cycleVars == <<current_time, predictions, iter, satIdx, track, acc, sat_pos,
               cycles, failed>>
uiVars == <<drawn, pending, lastEvent>>
harnessVars == <<geo, smp>>

NoSeries == TimeSeries_exclusive(0, 0, 0)
Idle == [pc |-> "idle"]

MainInit ==
    /\ pc = "enter_alt"
    /\ exit = "running"
    /\ panicSite = "none"
    /\ altScreen = FALSE
    /\ rawMode = FALSE
    /\ entered = FALSE
    /\ elements_vec = <<>>
    /\ kuiper_sats = <<>>
    /\ current_time = 0
    /\ predictions = NoSeries
    /\ iter = NoSeries
    /\ satIdx = 0
    /\ track = <<>>
    /\ acc = <<>>
    /\ sat_pos = <<>>
    /\ drawn = <<>>
    /\ cycles = 0
    /\ pending = NoEvent
    /\ lastEvent = NoEvent
    /\ failed = {}

Init ==
    /\ MainInit
    /\ geo = Idle
    /\ smp = Idle

\* an Err propagated by `?`: main returns it at once
Fail ==
    /\ pc' = "returned"
    /\ exit' = "err"
    /\ UNCHANGED panicSite

\* a panic unwinds main: the process ends without running the rest of main
Panic(site) ==
    /\ pc' = "aborted"
    /\ exit' = "panic"
    /\ panicSite' = site

Goto(to) ==
    /\ pc' = to
    /\ UNCHANGED <<exit, panicSite>>

\* stdout().execute(EnterAlternateScreen)?
EnterAlt ==
    /\ pc = "enter_alt"
    /\ \/ Goto("enable_raw") /\ altScreen' = TRUE
       \/ Fail /\ UNCHANGED altScreen
    /\ UNCHANGED <<rawMode, entered, rosterVars, cycleVars, uiVars, harnessVars>>

\* enable_raw_mode()?
EnableRaw ==
    /\ pc = "enable_raw"
    /\ \/ Goto("term_new") /\ rawMode' = TRUE /\ entered' = altScreen
       \/ Fail /\ UNCHANGED <<rawMode, entered>>
    /\ UNCHANGED <<altScreen, rosterVars, cycleVars, uiVars, harnessVars>>

\* Terminal::new(..)? and terminal.clear()?
TermNew ==
    /\ pc = "term_new"
    /\ \/ Goto("splash")
       \/ Fail
    /\ UNCHANGED <<termVars, rosterVars, cycleVars, uiVars, harnessVars>>

\* terminal.draw(..).unwrap() of the "Fetching orbits" frame
Splash ==
    /\ pc = "splash"
    /\ \/ Goto("fetch")
       \/ Panic("splash_draw")
    /\ UNCHANGED <<termVars, rosterVars, cycleVars, uiVars, harnessVars>>

\* ureq::get(..).call()? and response.into_json()?
Fetch ==
    /\ pc = "fetch"
    /\ \/ \E r \in Rosters : Goto("filter") /\ elements_vec' = r
       \/ Fail /\ UNCHANGED elements_vec
    /\ UNCHANGED <<termVars, kuiper_sats, cycleVars, uiVars, harnessVars>>

\* |entry| entry.object_name.as_ref().is_some_and(|name| name.starts_with("KUIPER"))
name_matches(entry) ==
    /\ entry.object_name.tag = "Some"
    /\ starts_with(entry.object_name.val, KUIPER)

\* .iter().filter(..).collect::<Vec<&Elements>>(): the references kept, in order
RECURSIVE filter_collect(_, _)
filter_collect(vec, i) ==
    IF i > Len(vec) THEN <<>>
    ELSE (IF name_matches(vec[i]) THEN <<i>> ELSE <<>>) \o filter_collect(vec, i + 1)

Filter ==
    /\ pc = "filter"
    /\ kuiper_sats' = filter_collect(elements_vec, 1)
    /\ Goto("loop_top")
    /\ UNCHANGED <<termVars, elements_vec, cycleVars, uiVars, harnessVars>>

\* head of the loop body: the clock is read and the window is laid out
LoopTop ==
    /\ pc = "loop_top"
    /\ cycles < MaxCycles
    /\ \/ /\ Panic("now")
          /\ UNCHANGED cycleVars
       \/ \E now \in Nows :
              /\ now >= current_time
              /\ current_time' = now
              /\ LET next_orbit_end == now + OrbitWindow
                 IN  predictions' = make_predictions(now, next_orbit_end, SampleStep)
              /\ iter' = predictions'
              /\ satIdx' = 1
              /\ track' = <<>>
              /\ acc' = <<>>
              /\ sat_pos' = <<>>
              /\ failed' = {}
              /\ cycles' = cycles + 1
              /\ Goto("build")
    /\ UNCHANGED <<termVars, rosterVars, uiVars, harnessVars>>

\* one step of the nested map/collect: the next instant of the current
\* satellite, or the end of its series
BuildSample ==
    /\ pc = "build"
    /\ satIdx <= Len(kuiper_sats)
    /\ LET sat == elements_vec[kuiper_sats[satIdx]]
           nx  == TimeSeries_next(iter)
       IN  IF nx.item.tag = "None"
           THEN /\ acc' = Append(acc, [sat |-> kuiper_sats[satIdx], pos |-> track])
                /\ satIdx' = satIdx + 1
                /\ track' = <<>>
                /\ iter' = predictions
                /\ Goto("build")
                /\ UNCHANGED failed
           ELSE LET time == nx.item.val
                    r == get_sat_lat_lon(time, sat)
                IN  IF r.tag = "Some"
                    THEN /\ track' = Append(track, r.val)
                         /\ iter' = nx.series
                         /\ Goto("build")
                         /\ UNCHANGED <<acc, satIdx, failed>>
                    ELSE /\ Panic(IF r.tag = "None" THEN "unwrap_none" ELSE r.site)
                         /\ failed' = IF r.tag = "None"
                                      THEN failed \cup {<<satIdx, time>>}
                                      ELSE failed
                         /\ track' = <<>>
                         /\ acc' = <<>>
                         /\ UNCHANGED <<iter, satIdx>>
    /\ UNCHANGED <<termVars, rosterVars, current_time, predictions, sat_pos,
                   cycles, uiVars, harnessVars>>

BuildCollect_SkipDraw ==
    /\ pc = "build"
    /\ satIdx > Len(kuiper_sats)
    /\ sat_pos' = acc
    /\ acc' = <<>>
    /\ Goto("poll")
    /\ UNCHANGED <<termVars, rosterVars, current_time, predictions, iter, satIdx,
                   track, cycles, failed, uiVars, harnessVars>>

\* the outer collect() ends: sat_pos is bound
BuildCollect ==
    /\ pc = "build"
    /\ satIdx > Len(kuiper_sats)
    /\ sat_pos' = acc
    /\ acc' = <<>>
    /\ Goto("draw")
    /\ UNCHANGED <<termVars, rosterVars, current_time, predictions, iter, satIdx,
                   track, cycles, failed, uiVars, harnessVars>>

\* sat.object_name.as_ref().unwrap().strip_prefix("KUIPER-").unwrap()
label(sat) ==
    IF sat.object_name.tag = "None" THEN [tag |-> "panic", site |-> "name_unwrap"]
    ELSE LET l == strip_prefix(sat.object_name.val, KUIPER_DASH)
         IN  IF l.tag = "None" THEN [tag |-> "panic", site |-> "label"] ELSE l

\* what painting one entry of sat_pos does: pos[0] is indexed, the label is built
paint(entry) ==
    IF Len(entry.pos) = 0 THEN [tag |-> "panic", site |-> "index"]
    ELSE label(elements_vec[entry.sat])

\* terminal.draw(..)? of the cycle
Draw ==
    /\ pc = "draw"
    /\ IF \E i \in 1..Len(sat_pos) : paint(sat_pos[i]).tag = "panic"
       THEN LET i == CHOOSE k \in 1..Len(sat_pos) :
                         /\ paint(sat_pos[k]).tag = "panic"
                         /\ \A j \in 1..(k - 1) : paint(sat_pos[j]).tag # "panic"
            IN  Panic(paint(sat_pos[i]).site) /\ UNCHANGED drawn
       ELSE \/ Goto("poll") /\ drawn' = sat_pos
            \/ Fail /\ UNCHANGED drawn
    /\ UNCHANGED <<termVars, rosterVars, cycleVars, pending, lastEvent, harnessVars>>

\* key.kind == Press && key.code == Char('q') || key.code == Char('Q')
is_quit(key) ==
    \/ (key.kind = "Press" /\ key.code = "q")
    \/ key.code = "Q"

\* event::poll(16 ms)? and, when an event waits, event::read()?
PollQuit ==
    /\ pc = "poll"
    /\ \/ Fail /\ UNCHANGED <<pending, lastEvent>>
       \/ /\ pending.tag = "NoEvent"
          /\ Goto("loop_top")
          /\ UNCHANGED <<pending, lastEvent>>
       \/ /\ pending.tag # "NoEvent"
          /\ \/ Fail /\ UNCHANGED <<pending, lastEvent>>
             \/ /\ lastEvent' = pending
                /\ pending' = NoEvent
                /\ IF pending.tag = "Key" /\ is_quit(pending)
                   THEN Goto("leave_alt")
                   ELSE Goto("loop_top")
    /\ UNCHANGED <<termVars, rosterVars, cycleVars, drawn, harnessVars>>

\* stdout().execute(LeaveAlternateScreen)?
LeaveAlt ==
    /\ pc = "leave_alt"
    /\ \/ Goto("disable_raw") /\ altScreen' = FALSE
       \/ Fail /\ UNCHANGED altScreen
    /\ UNCHANGED <<rawMode, entered, rosterVars, cycleVars, uiVars, harnessVars>>

\* disable_raw_mode()?; Ok(())
DisableRaw ==
    /\ pc = "disable_raw"
    /\ \/ /\ rawMode' = FALSE
          /\ pc' = "returned"
          /\ exit' = "ok"
          /\ UNCHANGED panicSite
       \/ Fail /\ UNCHANGED rawMode
    /\ UNCHANGED <<altScreen, entered, rosterVars, cycleVars, uiVars, harnessVars>>

\* the user acts on the terminal while the loop runs
UserInput ==
    /\ pc \in {"loop_top", "build", "draw", "poll"}
    /\ pending.tag = "NoEvent"
    /\ \E ev \in Events : pending' = ev
    /\ UNCHANGED <<pc, exit, panicSite, termVars, rosterVars, cycleVars, drawn,
                   lastEvent, harnessVars>>

Next ==
    \/ EnterAlt
    \/ EnableRaw
    \/ TermNew
    \/ Splash
    \/ Fetch
    \/ Filter
    \/ LoopTop
    \/ BuildSample
    \/ BuildCollect
    \/ Draw
    \/ PollQuit
    \/ LeaveAlt
    \/ DisableRaw
    \/ UserInput

Spec == Init /\ [][Next]_vars

----------------------------------------------------------------------------
(* The sampler on its own: a TimeSeries over a window [start, end) with a   *)
(* step, consumed to its end as `.map(..).collect()` consumes it.          *)

Windows ==
    { <<d, st>> : d \in 0..MaxDur, st \in 1..MaxStep }
    \cup { <<OrbitWindow, SampleStep>> }

SamplerInit ==
    /\ MainInit
    /\ geo = Idle
    /\ \E start \in 0..MaxStart, w \in Windows :
           smp = [pc |-> "run", start |-> start, end |-> start + w[1],
                  step |-> w[2],
                  it |-> make_predictions(start, start + w[1], w[2]),
                  out |-> <<>>]

SamplerStep ==
    /\ smp.pc = "run"
    /\ LET nx == TimeSeries_next(smp.it)
       IN  IF nx.item.tag = "None"
           THEN smp' = [smp EXCEPT !.pc = "done"]
           ELSE smp' = [smp EXCEPT !.it = nx.series,
                                   !.out = Append(smp.out, nx.item.val)]
    /\ UNCHANGED <<mainVars, geo>>

SamplerNext == SamplerStep

SamplerSpec == SamplerInit /\ [][SamplerNext]_vars

----------------------------------------------------------------------------
(* spherical_to_lat_lon on its own: spherical points on an angular grid,   *)
(* at the instants of two days around J2000 whose sidereal angle falls on  *)
(* the same grid.                                                          *)

GridRad == PI \div AngleSteps
GridSec == SecondsPerDay \div (2 * AngleSteps)

\* theta = atan2(y, x) lies in (-pi, pi]
Thetas == { k * GridRad : k \in (1 - AngleSteps)..AngleSteps }
Phis == { k * GridRad : k \in 0..AngleSteps }
Instants ==
    { e \in (-SecondsPerDay)..(SecondsPerDay - 1) : Rem(calc_gmst(e), GridSec) = 0 }

GeoInit ==
    /\ MainInit
    /\ smp = Idle
    /\ \E th \in Thetas, ph \in Phis, e \in Instants :
           geo = [pc |-> "in", s |-> [rho |-> 7, theta |-> th, phi |-> ph],
                  time |-> e]

GeoApply ==
    /\ geo.pc = "in"
    /\ geo' = [pc |-> "out", s |-> geo.s, time |-> geo.time,
               g |-> spherical_to_lat_lon(geo.s, geo.time)]
    /\ UNCHANGED <<mainVars, smp>>

GeoNext == GeoApply

GeoSpec == GeoInit /\ [][GeoNext]_vars

----------------------------------------------------------------------------
(* Properties *)

Ceil(a, b) == (a + b - 1) \div b

\* samples in one ground track of the program's window
SamplesPerTrack == Ceil(OrbitWindow, SampleStep)

\* the instant of the i-th sample of the cycle
InstantOf(i) == current_time + (i - 1) * SampleStep

\* the track of satellite b of the roster over the cycle's window when
\* every propagation of b succeeds
ExpectedTrack(b) ==
    [i \in 1..SamplesPerTrack |->
        get_sat_lat_lon(InstantOf(i), elements_vec[kuiper_sats[b]]).val]

\* the cycle's snapshot is bound
SnapshotBuilt == pc \in {"draw", "poll"}

\* the build of the cycle has ended: the snapshot is bound, or the unwrap of
\* a failed sample has aborted it
BuildEnded == SnapshotBuilt \/ (pc = "aborted" /\ panicSite = "unwrap_none")

\* every propagation of satellite b over the cycle's window succeeds
Healthy(b) ==
    \A i \in 1..SamplesPerTrack :
        get_prediction(InstantOf(i), elements_vec[kuiper_sats[b]]).tag = "Some"

\* C1: failure isolation within one ground track.  When propagation has
\* failed for a satellite at an instant of the cycle, the failure does not
\* abort the build (sampling continues past the failing instant), and in the
\* snapshot the satellite's track holds one entry per requested instant.
C1_FailureIsolation ==
    \A f \in failed :
        /\ ~(exit = "panic" /\ panicSite = "unwrap_none")
        /\ SnapshotBuilt =>
               /\ Len(sat_pos) >= f[1]
               /\ Len(sat_pos[f[1]].pos) = SamplesPerTrack

\* C2: errors never cross satellite boundaries.  When propagation failed
\* for satellite A in this cycle and the build has ended, the snapshot holds
\* for every other satellite B of the roster the track B has when A does
\* not fail.
C2_NoCrossSatelliteFailure ==
    \A f \in failed :
        BuildEnded =>
            \A b \in (1..Len(kuiper_sats)) \ {f[1]} :
                Healthy(b) =>
                    /\ Len(sat_pos) >= b
                    /\ sat_pos[b].sat = kuiper_sats[b]
                    /\ sat_pos[b].pos = ExpectedTrack(b)

\* C3: sampler cardinality and ordering.  At every point of the sampling of
\* a window [start, end) with step > 0 the instants produced so far are
\* start, start + step, start + 2 * step, ..., each below end; when the
\* series is exhausted there are exactly ceil((end - start) / step) of them;
\* for the window of 94.5 minutes and the step of 2.5 minutes that is 38,
\* the first at start and the last 92.5 minutes after it.
C3_SamplerCardinality ==
    smp.pc \in {"run", "done"} =>
        LET n == Ceil(smp.end - smp.start, smp.step)
            out == smp.out
        IN  /\ smp.step > 0
            /\ Len(out) <= n
            /\ \A i \in 1..Len(out) :
                   /\ out[i] = smp.start + (i - 1) * smp.step
                   /\ out[i] < smp.end
            /\ \A i, j \in 1..Len(out) : i < j => out[i] < out[j]
            /\ smp.pc = "done" =>
                   /\ Len(out) = n
                   /\ (smp.end - smp.start = OrbitWindow /\ smp.step = SampleStep) =>
                          /\ Len(out) = 38
                          /\ out[1] = smp.start
                          /\ out[38] = smp.start + (Minute * 925) \div 10

C3_Witness ==
    /\ smp.pc = "done"
    /\ smp.end - smp.start = OrbitWindow
    /\ smp.step = SampleStep
    /\ Len(smp.out) = 38

\* C4: range of spherical_to_lat_lon.  For phi in [0, pi], any theta and
\* any instant, the latitude is in [-90, 90] and the longitude in
\* (-180, 180]: -180 is never returned.
C4_RangeInvariant ==
    geo.pc = "out" =>
        /\ Deg(-90) <= geo.g.lat /\ geo.g.lat <= Deg(90)
        /\ Deg(-180) < geo.g.lon /\ geo.g.lon <= Deg(180)

\* C5: get_prediction never ends the process: no panic comes from parsing
\* the reference epoch or from constructing the propagation constants.
C5_NoFatalError ==
    ~(exit = "panic" /\ panicSite \in {"epoch_parse", "constants"})

SnapshotComplete(sp) ==
    /\ Len(sp) = Len(kuiper_sats)
    /\ \A i \in 1..Len(sp) :
           /\ sp[i].sat = kuiper_sats[i]
           /\ Len(sp[i].pos) = SamplesPerTrack

\* C6: cooperative, coarse-grained cancellation.  The loop goes build,
\* render, poll in that order: rendering starts only from a build that has
\* collected a full snapshot, the poll point is entered only from a render
\* that drew that snapshot, a new cycle starts only from the poll point (or
\* the roster filter, for the first); a terminal event is consumed only at
\* the poll point, and the loop is left only from the poll point, with the
\* cycle's complete snapshot rendered.
C6_CooperativeCancellation ==
    [][ /\ (pc' = "build" /\ pc # "build") => pc = "loop_top"
        /\ (pc' = "draw" /\ pc # "draw") =>
               (pc = "build" /\ SnapshotComplete(sat_pos'))
        /\ (pc' = "poll" /\ pc # "poll") =>
               (pc = "draw" /\ SnapshotComplete(sat_pos) /\ drawn' = sat_pos)
        /\ (pc' = "loop_top" /\ pc # "loop_top") => pc \in {"filter", "poll"}
        /\ (pending.tag # "NoEvent" /\ pending' # pending) => pc = "poll"
        /\ (pc' = "leave_alt" /\ pc # "leave_alt") =>
               /\ pc = "poll"
               /\ SnapshotComplete(sat_pos)
               /\ drawn = sat_pos
      ]_vars

C6_Witness ==
    /\ pc = "leave_alt"
    /\ Len(sat_pos) >= 1
    /\ drawn = sat_pos
    /\ lastEvent.tag = "Key"
    /\ lastEvent.code = "q"

\* the positions of vec whose name is present and begins with KUIPER
MatchingIndices(vec) ==
    { i \in 1..Len(vec) :
        /\ vec[i].object_name.tag = "Some"
        /\ Len(vec[i].object_name.val) >= 6
        /\ \A k \in 1..6 : vec[i].object_name.val[k] = KUIPER[k] }

\* C7: roster filtering.  Once the filter has run, the roster refers to
\* exactly the retrieved entries whose name is present and starts with
\* KUIPER, each once, in their original order.
C7_RosterFiltering ==
    pc # "filter" =>
        LET idx == MatchingIndices(elements_vec)
        IN  /\ Len(kuiper_sats) = Cardinality(idx)
            /\ \A k \in 1..Len(kuiper_sats) :
                   /\ kuiper_sats[k] \in idx
                   /\ Cardinality({ j \in idx : j < kuiper_sats[k] }) = k - 1

C7_Witness ==
    /\ pc = "loop_top"
    /\ Len(elements_vec) = 2
    /\ elements_vec[1].object_name = Some(<<"X">> \o KUIPER \o <<"-", "2">>)
    /\ kuiper_sats = <<2>>

\* C8: the loop is left at the poll point only on a key event of kind Press
\* with code 'q' or 'Q'.
C8_QuitOnlyOnPress ==
    pc = "leave_alt" =>
        /\ lastEvent.tag = "Key"
        /\ lastEvent.kind = "Press"
        /\ lastEvent.code \in {"q", "Q"}

\* C9: the terminal is restored on every return of main that follows the
\* setup: when main returns after the alternate screen was entered and raw
\* mode enabled, the alternate screen has been left and raw mode disabled.
C9_TerminalRestored ==
    (pc = "returned" /\ entered) => (~altScreen /\ ~rawMode)

\* C10: the label of every satellite that passed the name filter can be
\* computed: no render panics on a satellite's name.
C10_LabelsSucceed ==
    ~(exit = "panic" /\ panicSite \in {"label", "name_unwrap"})

====
